---- MODULE Spec2Model ----
(***************************************************************************)
(* Relation extraction over a dependency-parsed sentence (relation.py).    *)
(*                                                                         *)
(* A sentence is a token list (word, pos) and a list of labelled edges     *)
(* (source, target, dep) with 1-based token positions.  A relation is a    *)
(* triple <<subject, predicate, object>> whose predicate is a tuple of     *)
(* token positions; returned relations are 0-based.                        *)
(*                                                                         *)
(* Python lists are sequences, dicts with list values are functions from   *)
(* the key set to sequences, set() is a set, and None is NoToken / NoPred. *)
(***************************************************************************)
EXTENDS Integers, Sequences, FiniteSets, TLC

VARIABLES tokens, edges, prev, relations, op, calls

vars == <<tokens, edges, prev, relations, op, calls>>

(***************************************************************************)
(* Bounds of the explored inputs.                                          *)
(***************************************************************************)
MaxVerbEdges == 4

MaxEdges == 6

MaxOfEdges == 2

MaxRels == 2

(***************************************************************************)
(* Generic helpers.                                                        *)
(***************************************************************************)
Range(s) == {s[i] : i \in DOMAIN s}

RECURSIVE Flatten(_)
Flatten(ss) == IF ss = <<>> THEN <<>> ELSE Head(ss) \o Flatten(Tail(ss))

\* str.startswith
StartsWith(s, prefix) ==
    /\ Len(s) >= Len(prefix)
    /\ SubSeq(s, 1, Len(prefix)) = prefix

\* '_'.join(words)
RECURSIVE JoinUnderscore(_)
JoinUnderscore(words) ==
    IF Len(words) = 0 THEN ""
    ELSE IF Len(words) = 1 THEN words[1]
    ELSE words[1] \o "_" \o JoinUnderscore(Tail(words))

Edge(s, t, d) == [source |-> s, target |-> t, dep |-> d]

Token(w, p) == [word |-> w, pos |-> p]

\* None for a token position (positions are 1-based, so 0 is free)
NoToken == 0

(***************************************************************************)
(* _extract_by_subj_obj                                                    *)
(***************************************************************************)
\* A plausible slip: acl:relcl read in the same direction as dobj.
ClassifyRelclForward(edge) ==
    CASE edge.dep = "nsubj" -> [known |-> TRUE, subj |-> edge.target, pred |-> edge.source, obj |-> NoToken]
      [] edge.dep = "acl" -> [known |-> TRUE, subj |-> edge.source, pred |-> edge.target, obj |-> NoToken]
      [] edge.dep = "dobj" -> [known |-> TRUE, subj |-> NoToken, pred |-> edge.source, obj |-> edge.target]
      [] edge.dep = "acl:relcl" -> [known |-> TRUE, subj |-> NoToken, pred |-> edge.source, obj |-> edge.target]
      [] OTHER -> [known |-> FALSE, subj |-> NoToken, pred |-> NoToken, obj |-> NoToken]

\* lines 64-74: the role of one edge; known = FALSE is the `continue`
Classify(edge) ==
    CASE edge.dep = "nsubj" -> [known |-> TRUE, subj |-> edge.target, pred |-> edge.source, obj |-> NoToken]
      [] edge.dep = "acl" -> [known |-> TRUE, subj |-> edge.source, pred |-> edge.target, obj |-> NoToken]
      [] edge.dep = "dobj" -> [known |-> TRUE, subj |-> NoToken, pred |-> edge.source, obj |-> edge.target]
      [] edge.dep = "acl:relcl" -> [known |-> TRUE, subj |-> NoToken, pred |-> edge.target, obj |-> edge.source]
      [] OTHER -> [known |-> FALSE, subj |-> NoToken, pred |-> NoToken, obj |-> NoToken]

\* pred2insts = {}: keys in insertion order, and the two lists of each key
EmptyPred2Insts == [keys |-> <<>>, subjs |-> <<>>, objs |-> <<>>]

\* lines 76-85: one iteration of the loop body for a classified edge
AddInst(p2i, c) ==
    LET present == \E k \in DOMAIN p2i.keys : p2i.keys[k] = c.pred
        withKey == IF present THEN p2i
                   ELSE [keys |-> Append(p2i.keys, c.pred),
                         subjs |-> Append(p2i.subjs, <<>>),
                         objs |-> Append(p2i.objs, <<>>)]
        k == CHOOSE j \in DOMAIN withKey.keys : withKey.keys[j] = c.pred
    IN IF c.subj = NoToken
       THEN [withKey EXCEPT !.objs[k] = Append(@, c.obj)]
       ELSE [withKey EXCEPT !.subjs[k] = Append(@, c.subj)]

\* lines 62-85: the loop over the edges
RECURSIVE Pred2Insts(_)
Pred2Insts(es) ==
    IF es = <<>> THEN EmptyPred2Insts
    ELSE LET rest == Pred2Insts(SubSeq(es, 1, Len(es) - 1))
             c == Classify(es[Len(es)])
         IN IF c.known THEN AddInst(rest, c) ELSE rest

\* lines 87-94: the cross product per predicate, 0-based
ExtractBySubjObj(es) ==
    LET p2i == Pred2Insts(es)
        perObj(k, s) == [o \in DOMAIN p2i.objs[k] |->
                            <<p2i.subjs[k][s] - 1, <<p2i.keys[k] - 1>>, p2i.objs[k][o] - 1>>]
        perSubj(k) == Flatten([s \in DOMAIN p2i.subjs[k] |-> perObj(k, s)])
    IN Flatten([k \in DOMAIN p2i.keys |-> perSubj(k)])

(***************************************************************************)
(* _extract_by_nmod                                                        *)
(***************************************************************************)
\* lines 114-116: the key and the value an edge adds to dep_idx[edge.dep]
IdxSource(edge) == IF edge.dep = "acl" THEN edge.target ELSE edge.source

IdxTarget(edge) == IF edge.dep = "acl" THEN edge.source ELSE edge.target

\* lines 109-120: dep_idx[dep], governor -> dependents in edge order
DepIdx(es, dep) ==
    LET keys == {IdxSource(es[i]) : i \in {j \in DOMAIN es : es[j].dep = dep}}
        Under(k) == LET Test(e) == e.dep = dep /\ IdxSource(e) = k
                    IN SelectSeq(es, Test)
    IN [k \in keys |-> [i \in DOMAIN Under(k) |-> IdxTarget(Under(k)[i])]]

ExcludeOnlyOf == {"of"}

\* line 123
Exclude == {"of", "for"}

\* None for a predicate (a found predicate is never empty)
NoPred == <<>>

\* lines 143-146: the token positions of one case candidate
WordIdc(mwe, case) ==
    IF case \in DOMAIN mwe THEN <<case>> \o mwe[case] ELSE <<case>>

\* lines 144-147: the word the candidate reconstructs to
CaseWord(toks, mwe, case) ==
    IF case \in DOMAIN mwe
    THEN JoinUnderscore([i \in DOMAIN WordIdc(mwe, case) |-> toks[WordIdc(mwe, case)[i]].word])
    ELSE toks[case].word

\* A plausible slip: the first case candidate is taken without comparing its word.
FindPredUnchecked(toks, mwe, cases, nmod) ==
    IF cases = <<>> THEN NoPred ELSE WordIdc(mwe, cases[1])

\* lines 141-150: the first case candidate whose word equals nmod
RECURSIVE FindPred(_, _, _, _)
FindPred(toks, mwe, cases, nmod) ==
    IF cases = <<>> THEN NoPred
    ELSE IF CaseWord(toks, mwe, Head(cases)) = nmod THEN WordIdc(mwe, Head(cases))
    ELSE FindPred(toks, mwe, Tail(cases), nmod)

\* A plausible slip: the loop over ['acl', 'nsubj'] without its break.
VerbPhraseRelationsNoBreak(acl, nsubj, edge, pred) ==
    LET has == edge.source \in DOMAIN acl \/ edge.source \in DOMAIN nsubj
        p == IF has /\ edge.source + 1 = pred[1] THEN <<edge.source>> \o pred ELSE pred
        from(idx) == IF edge.source \in DOMAIN idx
                     THEN [i \in DOMAIN idx[edge.source] |-> <<idx[edge.source][i], p, edge.target>>]
                     ELSE <<>>
    IN from(acl) \o from(nsubj)

\* lines 159-165: the subjects of a verb-like source, acl before nsubj
VerbPhraseRelations(acl, nsubj, edge, pred) ==
    LET p == IF edge.source + 1 = pred[1] THEN <<edge.source>> \o pred ELSE pred
        from(idx) == [i \in DOMAIN idx[edge.source] |-> <<idx[edge.source][i], p, edge.target>>]
    IN IF edge.source \in DOMAIN acl THEN from(acl)
       ELSE IF edge.source \in DOMAIN nsubj THEN from(nsubj)
       ELSE <<>>

\* lines 127-165: the relations one edge appends to `relations` (1-based)
EdgeRelations(toks, es, edge) ==
    LET nmod == SubSeq(edge.dep, 6, Len(edge.dep))
        case == DepIdx(es, "case")
        mwe == DepIdx(es, "mwe")
        pred == FindPred(toks, mwe, case[edge.target], nmod)
    IN IF ~StartsWith(edge.dep, "nmod:") THEN <<>>
       ELSE IF nmod \in Exclude THEN <<>>
       ELSE IF ~StartsWith(toks[edge.target].pos, "NN") THEN <<>>
       ELSE IF edge.target \notin DOMAIN case THEN <<>>
       ELSE IF pred = NoPred THEN <<>>
       ELSE IF StartsWith(toks[edge.source].pos, "NN")
            THEN << <<edge.source, pred, edge.target>> >>
       ELSE VerbPhraseRelations(DepIdx(es, "acl"), DepIdx(es, "nsubj"), edge, pred)

\* lines 125-165: `relations` before the expansion
NmodRelations(toks, es) ==
    Flatten([i \in DOMAIN es |-> EdgeRelations(toks, es, es[i])])

\* A plausible slip: the object keeps its 1-based position.
ExpandRelationObjOneBased(conj, relation) ==
    LET subj == relation[1]
        obj == relation[3]
        subjs == <<subj>> \o (IF subj \in DOMAIN conj THEN conj[subj] ELSE <<>>)
        objs == <<obj>> \o (IF obj \in DOMAIN conj THEN conj[obj] ELSE <<>>)
        pred == [i \in DOMAIN relation[2] |-> relation[2][i] - 1]
    IN {<<s - 1, pred, o>> : s \in Range(subjs), o \in Range(objs)}

\* A plausible slip: only the subject is expanded.
ExpandRelationSubjOnly(conj, relation) ==
    LET subj == relation[1]
        obj == relation[3]
        subjs == <<subj>> \o (IF subj \in DOMAIN conj THEN conj[subj] ELSE <<>>)
        pred == [i \in DOMAIN relation[2] |-> relation[2][i] - 1]
    IN {<<s - 1, pred, obj - 1>> : s \in Range(subjs)}

\* lines 170-184: one relation expanded over conj:and, 0-based
ExpandRelation(conj, relation) ==
    LET subj == relation[1]
        obj == relation[3]
        subjs == <<subj>> \o (IF subj \in DOMAIN conj THEN conj[subj] ELSE <<>>)
        objs == <<obj>> \o (IF obj \in DOMAIN conj THEN conj[obj] ELSE <<>>)
        pred == [i \in DOMAIN relation[2] |-> relation[2][i] - 1]
    IN {<<s - 1, pred, o - 1>> : s \in Range(subjs), o \in Range(objs)}

\* lines 96-186; list(set) is returned, so the result is a set
ExtractByNmod(toks, es) ==
    UNION {ExpandRelation(DepIdx(es, "conj:and"), r) : r \in Range(NmodRelations(toks, es))}

(***************************************************************************)
(* _replace_by_of                                                          *)
(***************************************************************************)
\* A plausible slip: the keys of of_idx keep the 1-based position.
OfIdxOneBasedKeys(es) ==
    LET keys == {es[i].source : i \in {j \in DOMAIN es : es[j].dep = "nmod:of"}}
        Under(k) == LET Test(e) == e.dep = "nmod:of" /\ e.source = k
                    IN SelectSeq(es, Test)
    IN [k \in keys |-> [i \in DOMAIN Under(k) |-> Under(k)[i].target - 1]]

\* lines 197-202: of_idx, 0-based governor -> 0-based dependents in edge order
OfIdx(es) ==
    LET keys == {es[i].source - 1 : i \in {j \in DOMAIN es : es[j].dep = "nmod:of"}}
        Under(k) == LET Test(e) == e.dep = "nmod:of" /\ e.source - 1 = k
                    IN SelectSeq(es, Test)
    IN [k \in keys |-> [i \in DOMAIN Under(k) |-> Under(k)[i].target - 1]]

\* A plausible slip: a dependent that governs nmod:of itself is replaced again.
RealInstsChased(of_idx, inst) ==
    LET once(x) == IF x \in DOMAIN of_idx THEN of_idx[x] ELSE <<x>>
    IN Flatten([i \in DOMAIN once(inst) |-> once(once(inst)[i])])

\* lines 208-215: real_insts[typ] for one endpoint
RealInsts(of_idx, inst) ==
    IF inst \in DOMAIN of_idx THEN of_idx[inst] ELSE <<inst>>

\* lines 188-221; the loop only adds to a set, so the argument is read as a set
ReplaceByOf(es, rels) ==
    UNION {{<<s, r[2], o>> : s \in Range(RealInsts(OfIdx(es), r[1])),
                             o \in Range(RealInsts(OfIdx(es), r[3]))} : r \in rels}

(***************************************************************************)
(* extract, for one sentence                                               *)
(***************************************************************************)
\* A plausible slip: the verb relations go through the conj:and expansion too.
ExtractConjVerbs(toks, es) ==
    LET conj == DepIdx(es, "conj:and")
        verb == Range(ExtractBySubjObj(es))
        more == UNION {{<<s - 1, r[2], o - 1>> :
                           s \in {r[1] + 1} \cup (IF r[1] + 1 \in DOMAIN conj THEN Range(conj[r[1] + 1]) ELSE {}),
                           o \in {r[3] + 1} \cup (IF r[3] + 1 \in DOMAIN conj THEN Range(conj[r[3] + 1]) ELSE {})} :
                       r \in verb}
    IN ReplaceByOf(es, more \cup ExtractByNmod(toks, es))

\* lines 43-45
Extract(toks, es) ==
    ReplaceByOf(es, Range(ExtractBySubjObj(es)) \cup ExtractByNmod(toks, es))

(***************************************************************************)
(* The sentences explored: a token list and the edges a parse of it may    *)
(* hold.  A sentence takes some of the edges of its pool, in pool order.   *)
(***************************************************************************)
\* "Cats chase mice"
VerbTokens == <<Token("Cats", "NNS"), Token("chase", "VBP"), Token("mice", "NNS")>>

VerbDeps == <<"nsubj", "acl", "dobj", "acl:relcl", "conj:and">>

\* every labelled edge between two distinct tokens of VerbTokens
VerbPool ==
    LET n == Len(VerbTokens)
        pairs == Flatten([s \in 1..n |-> SelectSeq([t \in 1..n |-> <<s, t>>], LAMBDA q : q[1] # q[2])])
    IN Flatten([d \in DOMAIN VerbDeps |-> [i \in DOMAIN pairs |-> Edge(pairs[i][1], pairs[i][2], VerbDeps[d])]])

\* "car seen parked in front of for lake"
CarTokens == <<Token("car", "NN"), Token("seen", "VBN"), Token("parked", "VBN"),
               Token("in", "IN"), Token("front", "NN"), Token("of", "IN"),
               Token("for", "IN"), Token("lake", "NN")>>

CarPool == <<Edge(1, 8, "nmod:in"), Edge(3, 8, "nmod:in"), Edge(2, 8, "nmod:in"),
             Edge(3, 8, "nmod:in_front_of"), Edge(1, 8, "nmod:in_front_of"),
             Edge(5, 8, "nmod:of"), Edge(1, 8, "nmod:for"), Edge(1, 3, "nmod:in"),
             Edge(8, 4, "case"), Edge(8, 6, "case"), Edge(8, 7, "case"),
             Edge(4, 5, "mwe"), Edge(4, 6, "mwe"),
             Edge(1, 3, "acl"), Edge(3, 5, "nsubj"), Edge(2, 1, "nsubj"), Edge(5, 2, "acl"),
             Edge(1, 5, "conj:and"), Edge(5, 8, "conj:and"), Edge(8, 1, "conj:and"),
             Edge(3, 8, "dobj")>>

\* "Cats and dogs chase mice ."
CatsTokens == <<Token("Cats", "NNS"), Token("and", "CC"), Token("dogs", "NNS"),
                Token("chase", "VBP"), Token("mice", "NNS"), Token(".", ".")>>

CatsPool == <<Edge(1, 3, "conj:and"), Edge(4, 1, "nsubj"), Edge(4, 5, "dobj"),
              Edge(4, 3, "nsubj"), Edge(1, 2, "cc"), Edge(4, 6, "punct")>>

\* "group friends people arrived"
OfTokens == <<Token("group", "NN"), Token("friends", "NNS"), Token("people", "NNS"),
              Token("arrived", "VBD")>>

\* every nmod:of edge from a token of OfTokens to a later one ("X of Y")
OfPool ==
    LET n == Len(OfTokens)
        pairs == Flatten([s \in 1..n |-> SelectSeq([t \in 1..n |-> <<s, t>>], LAMBDA q : q[1] < q[2])])
    IN [i \in DOMAIN pairs |-> Edge(pairs[i][1], pairs[i][2], "nmod:of")]

\* the relations handed to _replace_by_of: two distinct 0-based tokens, two predicates
OfRelations ==
    LET P == 0..(Len(OfTokens) - 1)
    IN {r \in P \X {<<3>>, <<1, 3>>} \X P : r[1] # r[3]}

(***************************************************************************)
(* The state: the sentence (tokens, edges), the relations last returned,   *)
(* the relations held before each later call (prev, oldest first), the     *)
(* last operation and the number of calls made.                            *)
(*                                                                         *)
(* The parser's answer is built edge by edge; the extractor is called on   *)
(* any answer, and no edge is added after that.                            *)
(***************************************************************************)
MaxCalls == 2

\* the edges a parse of the sentence toks may hold
PoolOf(toks) ==
    IF toks = VerbTokens THEN VerbPool
    ELSE IF toks = CarTokens THEN CarPool
    ELSE IF toks = CatsTokens THEN CatsPool
    ELSE OfPool

\* the most edges explored for the sentence toks
MaxEdgesOf(toks) ==
    IF toks = VerbTokens THEN MaxVerbEdges
    ELSE IF toks = OfTokens THEN MaxOfEdges
    ELSE MaxEdges

\* the position of edge e in pool
PositionIn(pool, e) == CHOOSE i \in DOMAIN pool : pool[i] = e

\* the sentence before the parser has listed an edge
Start(toks, rels) ==
    /\ tokens = toks
    /\ edges = <<>>
    /\ prev = <<>>
    /\ relations = rels
    /\ op = "annotate"
    /\ calls = 0

InitVerb == Start(VerbTokens, <<>>)

InitCar == Start(CarTokens, {})

InitCats == Start(CatsTokens, {})

InitOf == Start(OfTokens, {})

\* ann = self.client.annotate(text): the parser lists one more edge of the
\* sentence, in pool order
AnnotateEdge ==
    /\ op = "annotate"
    /\ Len(edges) < MaxEdgesOf(tokens)
    /\ \E i \in DOMAIN PoolOf(tokens) :
          LET e == PoolOf(tokens)[i]
          IN /\ IF edges = <<>> THEN TRUE
                ELSE PositionIn(PoolOf(tokens), edges[Len(edges)]) < i
             /\ edges' = Append(edges, e)
    /\ UNCHANGED <<tokens, prev, relations, op, calls>>

\* the caller of _replace_by_of collects one more relation to hand to it
GiveRelation ==
    /\ op = "annotate"
    /\ tokens = OfTokens
    /\ Cardinality(relations) < MaxRels
    /\ \E r \in OfRelations \ relations : relations' = relations \cup {r}
    /\ UNCHANGED <<tokens, edges, prev, op, calls>>

\* relations = self._extract_by_subj_obj(sentence)
CallExtractBySubjObj ==
    /\ op = "annotate"
    /\ tokens = VerbTokens
    /\ relations' = ExtractBySubjObj(edges)
    /\ op' = "subj_obj"
    /\ calls' = calls + 1
    /\ UNCHANGED <<tokens, edges, prev>>

\* relations = self._extract_by_nmod(sentence)
CallExtractByNmod ==
    /\ op = "annotate"
    /\ tokens = CarTokens
    /\ relations' = ExtractByNmod(tokens, edges)
    /\ op' = "nmod"
    /\ calls' = calls + 1
    /\ UNCHANGED <<tokens, edges, prev>>

\* relations = self._replace_by_of(sentence, relations)
CallReplaceByOf ==
    /\ op \in {"annotate", "of"}
    /\ tokens = OfTokens
    /\ calls < MaxCalls
    /\ prev' = Append(prev, relations)
    /\ relations' = ReplaceByOf(edges, relations)
    /\ op' = "of"
    /\ calls' = calls + 1
    /\ UNCHANGED <<tokens, edges>>

\* the body of the loop of extract for one sentence
CallExtract ==
    /\ op = "annotate"
    /\ tokens \in {CarTokens, CatsTokens}
    /\ relations' = Extract(tokens, edges)
    /\ op' = "extract"
    /\ calls' = calls + 1
    /\ UNCHANGED <<tokens, edges, prev>>

\* edges with the edges at positions i and j exchanged
Swap(es, i, j) ==
    [k \in DOMAIN es |-> IF k = i THEN es[j] ELSE IF k = j THEN es[i] ELSE es[k]]

\* extract again on the same tokens and edge set, enumerated in another order
CallExtractReordered ==
    /\ op = "extract"
    /\ \E i, j \in DOMAIN edges :
          /\ i < j
          /\ edges' = Swap(edges, i, j)
          /\ relations' = Extract(tokens, Swap(edges, i, j))
    /\ prev' = Append(prev, relations)
    /\ op' = "extract_reordered"
    /\ calls' = calls + 1
    /\ UNCHANGED tokens

NextVerb == AnnotateEdge \/ CallExtractBySubjObj

SpecVerb == InitVerb /\ [][NextVerb]_vars

NextNmod == AnnotateEdge \/ CallExtractByNmod

SpecNmod == InitCar /\ [][NextNmod]_vars

NextOf == AnnotateEdge \/ GiveRelation \/ CallReplaceByOf

SpecOf == InitOf /\ [][NextOf]_vars

InitPipe == InitCar \/ InitCats

NextPipe == AnnotateEdge \/ CallExtract

SpecPipe == InitPipe /\ [][NextPipe]_vars

NextOrder == AnnotateEdge \/ CallExtract \/ CallExtractReordered

SpecOrder == InitPipe /\ [][NextOrder]_vars

Init == InitVerb \/ InitCar \/ InitCats \/ InitOf

Next ==
    \/ AnnotateEdge
    \/ GiveRelation
    \/ CallExtractBySubjObj
    \/ CallExtractByNmod
    \/ CallReplaceByOf
    \/ CallExtract
    \/ CallExtractReordered

Spec == Init /\ [][Next]_vars

(***************************************************************************)
(* Properties of the verb extractor.                                       *)
(***************************************************************************)
EdgeSet == Range(edges)

\* subject candidates of predicate p: nsubj targets of p, acl sources into p
SubjectCandidates(p) ==
    {e.target : e \in {f \in EdgeSet : f.dep = "nsubj" /\ f.source = p}}
        \cup {e.source : e \in {f \in EdgeSet : f.dep = "acl" /\ f.target = p}}

\* object candidates of predicate p: dobj targets of p, acl:relcl sources into p
ObjectCandidates(p) ==
    {e.target : e \in {f \in EdgeSet : f.dep = "dobj" /\ f.source = p}}
        \cup {e.source : e \in {f \in EdgeSet : f.dep = "acl:relcl" /\ f.target = p}}

\* C1: the verb extractor returns exactly the relations (s, (p), o), 0-based,
\* with s a subject candidate and o an object candidate of predicate p: the
\* whole cross product per predicate, and nothing for a predicate that lacks
\* subjects or lacks objects.
C1_VerbCrossProduct ==
    op = "subj_obj" =>
        Range(relations) =
            UNION {{<<s - 1, <<p - 1>>, o - 1>> : s \in SubjectCandidates(p), o \in ObjectCandidates(p)} :
                   p \in 1..Len(tokens)}

\* a predicate with two subjects (nsubj, acl) and two objects (dobj, acl:relcl)
C1_Witness ==
    /\ op = "subj_obj"
    /\ \E p \in 1..Len(tokens) :
          /\ \E e \in EdgeSet : e.dep = "nsubj" /\ e.source = p
          /\ \E e \in EdgeSet : e.dep = "acl" /\ e.target = p
          /\ \E e \in EdgeSet : e.dep = "dobj" /\ e.source = p
          /\ \E e \in EdgeSet : e.dep = "acl:relcl" /\ e.target = p
          /\ Cardinality(SubjectCandidates(p)) = 2
          /\ Cardinality(ObjectCandidates(p)) = 2
          /\ Cardinality(Range(relations)) = 4

(***************************************************************************)
(* Properties of the possessive rewrite.                                   *)
(***************************************************************************)
\* the 0-based nmod:of dependents of the 0-based token x
OfDependents(x) ==
    {e.target - 1 : e \in {f \in EdgeSet : f.dep = "nmod:of" /\ f.source - 1 = x}}

\* sub(x): all nmod:of dependents of x when it governs any, x itself otherwise
Sub(x) == IF OfDependents(x) # {} THEN OfDependents(x) ELSE {x}

LastArg == prev[Len(prev)]

\* C2: _replace_by_of returns exactly the relations (s', p, o') with s' in
\* sub(s) and o' in sub(o) for the relations (s, p, o) handed to it; a
\* dependent is not replaced again and the predicate is kept.
C2_SinglePassRewrite ==
    op = "of" =>
        relations = UNION {{<<s, r[2], o>> : s \in Sub(r[1]), o \in Sub(r[3])} : r \in LastArg}

\* a chain T -> U -> V: U replaces T, and V does not appear for that relation
C2_Witness ==
    /\ op = "of"
    /\ calls = 1
    /\ \E r \in LastArg : \E u \in OfDependents(r[1]) : \E v \in OfDependents(u) :
          /\ v \notin {u, r[1]}
          /\ <<u, r[2], r[3]>> \in relations
          /\ <<v, r[2], r[3]>> \notin relations

\* C4 as stated: a second application of _replace_by_of returns what the
\* first returned, for every sentence, chains included.
C4_Idempotent ==
    (op = "of" /\ calls >= 2) => relations = LastArg

\* no nmod:of dependent governs an nmod:of edge itself
NoOfChain ==
    \A e, f \in EdgeSet : (e.dep = "nmod:of" /\ f.dep = "nmod:of") => e.target # f.source

\* C4 amended: a second application of _replace_by_of returns what the first
\* returned for every sentence in which no nmod:of dependent itself governs
\* an nmod:of edge.
C4_IdempotentWithoutChain ==
    (op = "of" /\ calls >= 2 /\ NoOfChain) => relations = LastArg

\* the first application rewrote something and the sentence has no chain
C4_Witness ==
    /\ op = "of"
    /\ calls = 2
    /\ NoOfChain
    /\ prev[1] # prev[2]
    /\ relations # {}

(***************************************************************************)
(* Properties of the prepositional extractor.                              *)
(***************************************************************************)
IsNmod(e) == StartsWith(e.dep, "nmod:")

\* <X> of an nmod:<X> edge
NmodLabel(e) == SubSeq(e.dep, 6, Len(e.dep))

IsNoun(t) == StartsWith(tokens[t].pos, "NN")

\* the case dependents of token t
CaseDependents(t) ==
    {e.target : e \in {f \in EdgeSet : f.dep = "case" /\ f.source = t}}

\* the conj:and dependents of token t
ConjDependents(t) ==
    {e.target : e \in {f \in EdgeSet : f.dep = "conj:and" /\ f.source = t}}

\* the mwe dependents of token c, as the edges list them
MweDependents(c) ==
    LET under == SelectSeq(edges, LAMBDA e : e.dep = "mwe" /\ e.source = c)
    IN [i \in DOMAIN under |-> under[i].target]

\* the word of case token c followed by the words of all its mwe dependents
ReconstructedWord(c) ==
    LET idc == <<c>> \o MweDependents(c)
    IN JoinUnderscore([i \in DOMAIN idc |-> tokens[idc[i]].word])

\* the target of e has a case dependent that reconstructs to <X> exactly
Resolvable(e) ==
    \E c \in CaseDependents(e.target) : ReconstructedWord(c) = NmodLabel(e)

\* edges without the edge at position i
RemoveAt(es, i) == SubSeq(es, 1, i - 1) \o SubSeq(es, i + 1, Len(es))

\* the relations (s', p, o'), 0-based, of the 1-based relation (s, p, o):
\* s' is s or a conj:and dependent of s, o' is o or a conj:and dependent of o
Expansion(s, p, o) ==
    {<<s2 - 1, [i \in DOMAIN p |-> p[i] - 1], o2 - 1>> :
        s2 \in {s} \cup ConjDependents(s), o2 \in {o} \cup ConjDependents(o)}

\* the preposition part of a returned predicate: the predicate from its case
\* token on (a prepended verb is no case dependent)
PrepositionWord(r) ==
    LET p == [i \in DOMAIN r[2] |-> r[2][i] + 1]
        isCase == \E e \in EdgeSet : e.dep = "case" /\ e.target = p[1]
        part == IF isCase THEN p ELSE Tail(p)
    IN JoinUnderscore([i \in DOMAIN part |-> tokens[part[i]].word])

\* C6: no relation of the prepositional extractor comes from an nmod:of or
\* nmod:for edge (the result is that of the sentence without those edges), and
\* no returned predicate's preposition part is the word "of" or "for".
C6_ExclusionSet ==
    op = "nmod" =>
        /\ relations = ExtractByNmod(tokens,
                           SelectSeq(edges, LAMBDA e : e.dep \notin {"nmod:of", "nmod:for"}))
        /\ \A r \in relations : PrepositionWord(r) \notin {"of", "for"}

\* an nmod:for edge and an nmod:of edge between nouns whose target has the
\* case token "for" and the case token "of", beside an edge that does yield
\* a relation
C6_Witness ==
    /\ op = "nmod"
    /\ \E e \in EdgeSet :
          /\ e.dep = "nmod:for"
          /\ IsNoun(e.source) /\ IsNoun(e.target)
          /\ Resolvable(e)
    /\ \E e \in EdgeSet : e.dep = "nmod:of" /\ IsNoun(e.source) /\ Resolvable(e)
    /\ relations # {}

\* C8: every returned relation comes from an nmod edge whose target has a
\* case dependent reconstructing to <X> exactly, and an nmod edge without one
\* changes nothing: the result is that of the sentence without that edge.
C8_UnresolvableSkipped ==
    op = "nmod" =>
        /\ \A r \in relations :
              \E e \in EdgeSet :
                 /\ IsNmod(e) /\ Resolvable(e)
                 /\ r[3] + 1 \in {e.target} \cup ConjDependents(e.target)
        /\ \A i \in DOMAIN edges :
              (IsNmod(edges[i]) /\ ~Resolvable(edges[i])) =>
                  relations = ExtractByNmod(tokens, RemoveAt(edges, i))

\* nmod:in_front_of whose target has a case token but not the whole phrase,
\* beside an edge that does yield a relation
C8_Witness ==
    /\ op = "nmod"
    /\ \E e \in EdgeSet :
          /\ e.dep = "nmod:in_front_of"
          /\ IsNoun(e.target)
          /\ CaseDependents(e.target) # {}
          /\ ~Resolvable(e)
    /\ relations # {}

\* C9: the returned set is exactly the one-level conj:and expansion of the
\* relations produced from the nmod edges, each with its predicate.
C9_ConjExpansion ==
    op = "nmod" =>
        relations = UNION {Expansion(r[1], r[2], r[3]) : r \in Range(NmodRelations(tokens, edges))}

\* a subject with a conj:and dependent d whose own dependent d2 is not added
C9_Witness ==
    /\ op = "nmod"
    /\ \E r \in Range(NmodRelations(tokens, edges)) :
          \E d \in ConjDependents(r[1]) : \E d2 \in ConjDependents(d) :
             /\ d2 \notin {r[1]} \cup ConjDependents(r[1])
             /\ <<d - 1, [i \in DOMAIN r[2] |-> r[2][i] - 1], r[3] - 1>> \in relations
             /\ \A q \in relations : q[1] # d2 - 1

\* the acl sources into verb v, and the nsubj targets of v
AclSubjects(v) ==
    {e.source : e \in {f \in EdgeSet : f.dep = "acl" /\ f.target = v}}

NsubjSubjects(v) ==
    {e.target : e \in {f \in EdgeSet : f.dep = "nsubj" /\ f.source = v}}

\* a usable nmod:<X> edge whose source is not a noun
VerbLike(e) ==
    /\ IsNmod(e)
    /\ NmodLabel(e) \notin {"of", "for"}
    /\ IsNoun(e.target)
    /\ Resolvable(e)
    /\ ~IsNoun(e.source)

\* the preposition token sequence found for e
PrepositionOf(e) ==
    FindPred(tokens, DepIdx(edges, "mwe"), DepIdx(edges, "case")[e.target], NmodLabel(e))

\* C10: a verb-like nmod edge adds one relation per acl subject of its source,
\* or per nsubj subject when there is no acl subject, and none with neither;
\* the predicate is the preposition sequence, with the verb in front exactly
\* when the verb stands right before the first preposition token.
C10_VerbLikeSource ==
    op = "nmod" =>
        \A i \in DOMAIN edges :
            VerbLike(edges[i]) =>
                LET e == edges[i]
                    subs == IF AclSubjects(e.source) # {} THEN AclSubjects(e.source)
                            ELSE NsubjSubjects(e.source)
                    prep == PrepositionOf(e)
                    p == IF e.source + 1 = prep[1] THEN <<e.source>> \o prep ELSE prep
                IN relations = ExtractByNmod(tokens, RemoveAt(edges, i))
                                   \cup UNION {Expansion(s, p, e.target) : s \in subs}

\* a verb right before the preposition, with an acl subject and another nsubj subject
C10_Witness ==
    /\ op = "nmod"
    /\ \E e \in EdgeSet :
          /\ VerbLike(e)
          /\ AclSubjects(e.source) # {}
          /\ NsubjSubjects(e.source) \ AclSubjects(e.source) # {}
          /\ e.source + 1 = PrepositionOf(e)[1]
          /\ \E r \in relations : Len(r[2]) >= 2 /\ r[2][1] = e.source - 1

(***************************************************************************)
(* Properties of extract.                                                  *)
(***************************************************************************)
\* conj:and(cats,dogs), nsubj(chase,cats), dobj(chase,mice)
CatsAndDogsEdges ==
    {Edge(1, 3, "conj:and"), Edge(4, 1, "nsubj"), Edge(4, 5, "dobj")}

CatsAndDogs ==
    /\ op = "extract"
    /\ tokens = CatsTokens
    /\ EdgeSet = CatsAndDogsEdges

CatsChaseMice == <<0, <<3>>, 4>>

DogsChaseMice == <<2, <<3>>, 4>>

\* C3 as stated: for "Cats and dogs chase mice." with those three edges,
\* extract returns (cats,chase,mice) and (dogs,chase,mice).
C3_CoordinatedSubject ==
    CatsAndDogs => relations = {CatsChaseMice, DogsChaseMice}

\* C3 amended: with those three edges extract returns only (cats,chase,mice);
\* over the parses of that sentence (dogs,chase,mice) is returned exactly
\* when the edges also hold nsubj(chase,dogs) beside dobj(chase,mice).
C3_SubjectNeedsNsubj ==
    /\ CatsAndDogs => relations = {CatsChaseMice}
    /\ (op = "extract" /\ tokens = CatsTokens) =>
          (DogsChaseMice \in relations <=>
              {Edge(4, 3, "nsubj"), Edge(4, 5, "dobj")} \subseteq EdgeSet)

\* the sentence with exactly the three edges, after extract
C3_Witness ==
    /\ CatsAndDogs
    /\ relations # {}

\* C5: every relation extract returns has its subject, its object and each
\* index of its predicate in 0..n-1, and a predicate that is not empty.
C5_ValidIndices ==
    op = "extract" =>
        \A r \in relations :
            /\ r[1] \in 0..(Len(tokens) - 1)
            /\ r[3] \in 0..(Len(tokens) - 1)
            /\ Len(r[2]) >= 1
            /\ \A i \in DOMAIN r[2] : r[2][i] \in 0..(Len(tokens) - 1)

\* a verb-prepended multi-word predicate whose object is the last token and
\* whose subject the possessive rewrite has put in place of its governor
C5_Witness ==
    /\ op = "extract"
    /\ \E r \in relations :
          /\ Len(r[2]) = 4
          /\ r[3] = Len(tokens) - 1
          /\ \E e \in EdgeSet :
                /\ e.dep = "nmod:of"
                /\ r[1] = e.target - 1
                /\ <<e.source - 1, r[2], r[3]>> \notin relations
    /\ \E e \in EdgeSet : e.dep = "mwe"

\* C7: two runs of extract on the same tokens and the same edge set, the
\* edges enumerated in two orders, return equal relation sets.
C7_OrderIndependent ==
    op = "extract_reordered" => relations = LastArg

====
